---- MODULE Spec2Model ----
(***************************************************************************)
(* A model of the request dispatch and capability-handle core of the      *)
(* vector database SDK: tcvectordb/vdb_client.go (Client, optionMerge,    *)
(* Request, handleResponse), internal/engine/database.go (database        *)
(* operations) and the alias implementer with the AI gate.                *)
(*                                                                         *)
(* Strings that the code inspects (the URL prefix, the text of an error)  *)
(* are sequences: a URL is a sequence of characters, a message a sequence *)
(* of words.  Durations are whole seconds.                                *)
(***************************************************************************)
EXTENDS Integers, Sequences, FiniteSets, TLC

\* cli: the Client (its fields), or NoClient before and after a failed
\*      construction
\* dbs: the names of the databases the remote service holds
\* last: the latest public call: its arguments and what it handed back
VARIABLES cli, dbs, last

vars == <<cli, dbs, last>>

\* ------------------------------------------------------------------ bounds

\* largest non-default value a caller gives a numeric option field
MaxOptVal == 1
\* number of database names the callers use
NumDb == 2
\* largest non-zero envelope code the service answers with
MaxCode == 1
\* the number of callers that issue Request concurrently on one client
NumThreads == 2

\* ------------------------------------------------------- program constants

DefaultTimeout == 5
DefaultMaxIdldConnPerHost == 2
DefaultIdleConnTimeout == 60

EventualConsistency == "eventualConsistency"
StrongConsistency == "strongConsistency"

\* ------------------------------------------------------------ strings

\* strings.HasPrefix
HasPrefix(s, prefix) ==
    /\ Len(s) >= Len(prefix)
    /\ SubSeq(s, 1, Len(prefix)) = prefix

\* strings.Contains
Contains(s, substr) ==
    \E i \in 0..(Len(s) - Len(substr)) : SubSeq(s, i + 1, i + Len(substr)) = substr

Http == <<"h", "t", "t", "p">>
NotExist == <<"not", "exist">>

\* ------------------------------------------------------------ errors

\* the nil error
Nil == [kind |-> "nil", text |-> <<>>]

\* an error value: where it was made and what err.Error() reads
Err(kind, text) == [kind |-> kind, text |-> text]

\* ------------------------------------------------- transport configuration

\* a nil *ClientOption
NilOption == [isNil |-> TRUE]

ClientOption(timeout, maxIdle, idleTimeout, consistency, transport) ==
    [isNil |-> FALSE,
     Timeout |-> timeout,
     MaxIdldConnPerHost |-> maxIdle,
     IdleConnTimeout |-> idleTimeout,
     ReadConsistency |-> consistency,
     Transport |-> transport]

defaultOption ==
    ClientOption(DefaultTimeout, DefaultMaxIdldConnPerHost, DefaultIdleConnTimeout,
                 EventualConsistency, "nil")

\* optionMerge giving IdleConnTimeout the default of Timeout
optionMerge_CopiedDefault(option) ==
    [option EXCEPT
       !.Timeout = IF @ = 0 THEN defaultOption.Timeout ELSE @,
       !.IdleConnTimeout = IF @ = 0 THEN defaultOption.Timeout ELSE @,
       !.MaxIdldConnPerHost = IF @ = 0 THEN defaultOption.MaxIdldConnPerHost ELSE @,
       !.ReadConsistency = IF @ = "" THEN defaultOption.ReadConsistency ELSE @]

\* optionMerge adding the default pool size to the caller's instead of
\* replacing an unset one
optionMerge_Adds(option) ==
    [option EXCEPT
       !.Timeout = IF @ = 0 THEN defaultOption.Timeout ELSE @,
       !.IdleConnTimeout = IF @ = 0 THEN defaultOption.IdleConnTimeout ELSE @,
       !.MaxIdldConnPerHost = @ + defaultOption.MaxIdldConnPerHost,
       !.ReadConsistency = IF @ = "" THEN defaultOption.ReadConsistency ELSE @]

optionMerge(option) ==
    [option EXCEPT
       !.Timeout = IF @ = 0 THEN defaultOption.Timeout ELSE @,
       !.IdleConnTimeout = IF @ = 0 THEN defaultOption.IdleConnTimeout ELSE @,
       !.MaxIdldConnPerHost = IF @ = 0 THEN defaultOption.MaxIdldConnPerHost ELSE @,
       !.ReadConsistency = IF @ = "" THEN defaultOption.ReadConsistency ELSE @]

\* ------------------------------------------------------------ the client

NoClient == [isNil |-> TRUE]

\* the address of the one Client; handles hold it as their SdkClient
ClientRef == "client"

\* the RoundTripper of the http.Client: the caller's, or a fresh http.Transport
\* built from the merged option
httpTransport(option, merged) ==
    IF option.Transport # "nil"
    THEN [custom |-> TRUE]
    ELSE [custom |-> FALSE,
          MaxIdleConnsPerHost |-> merged.MaxIdldConnPerHost,
          IdleConnTimeout |-> merged.IdleConnTimeout]

\* newClient testing that the URL contains "http" instead of beginning with it
newClient_ContainsHttp(url, username, key, option) ==
    IF ~Contains(url, Http) \/ username = <<>> \/ key = <<>>
    THEN [cli |-> NoClient, err |-> Err("Construction", <<"invalid", "param">>)]
    ELSE [cli |-> [isNil |-> FALSE,
                   DatabaseInterface |-> [SdkClient |-> ClientRef],
                   url |-> url,
                   username |-> username,
                   key |-> key,
                   debug |-> FALSE,
                   option |-> optionMerge(option),
                   httpTimeout |-> optionMerge(option).Timeout,
                   httpTransport |-> httpTransport(option, optionMerge(option))],
          err |-> Nil]

newClient(url, username, key, option) ==
    IF ~HasPrefix(url, Http)
    THEN [cli |-> NoClient,
          err |-> Err("Construction", <<"invalid", "url", "param", "with:">> \o url)]
    ELSE IF username = <<>> \/ key = <<>>
    THEN [cli |-> NoClient,
          err |-> Err("Construction", <<"username", "or", "key", "is", "empty">>)]
    ELSE [cli |-> [isNil |-> FALSE,
                   DatabaseInterface |-> [SdkClient |-> ClientRef],
                   url |-> url,
                   username |-> username,
                   key |-> key,
                   debug |-> FALSE,
                   option |-> optionMerge(option),
                   httpTimeout |-> optionMerge(option).Timeout,
                   httpTransport |-> httpTransport(option, optionMerge(option))],
          err |-> Nil]

NewClient(url, username, key, option) ==
    newClient(url, username, key,
              optionMerge(IF option.isNil THEN defaultOption ELSE option))

\* ------------------------------------------------------ JSON values

\* a field of a JSON object: absent, an integer that fits int32, a number that
\* does not (too large, or with a fraction), a string (words) or an array
JAbsent == [t |-> "absent", n |-> 0, s |-> <<>>]
JNum(n) == [t |-> "num", n |-> n, s |-> <<>>]
JBig == [t |-> "big", n |-> 0, s |-> <<>>]
JStr(w) == [t |-> "str", n |-> 0, s |-> w]
JArr(a) == [t |-> "arr", n |-> 0, s |-> a]

\* a response body: bytes that are no JSON ("text"), the JSON null, a JSON
\* array, or a JSON object with the fields code, msg and one payload field
Body(kind, words, code, msg, payload) ==
    [kind |-> kind, words |-> words, code |-> code, msg |-> msg, payload |-> payload]
TextBody(words) == Body("text", words, JAbsent, JAbsent, JAbsent)
NullBody == Body("null", <<>>, JAbsent, JAbsent, JAbsent)
ArrayBody == Body("array", <<>>, JAbsent, JAbsent, JAbsent)
ObjectBody(code, msg, payload) == Body("object", <<>>, code, msg, payload)

\* how a JSON field reads inside string(responseBytes)
FieldString(name, f) ==
    IF f.t = "absent" THEN <<>>
    ELSE IF f.t = "num" THEN <<name, ToString(f.n)>>
    ELSE IF f.t = "big" THEN <<name, "4294967296">>
    ELSE IF f.t = "str" THEN <<name>> \o f.s
    ELSE <<name, "[...]">>

\* string(responseBytes)
BodyString(body) ==
    IF body.kind = "text" THEN body.words
    ELSE IF body.kind = "null" THEN <<"null">>
    ELSE IF body.kind = "array" THEN <<"[]">>
    ELSE <<"{">> \o FieldString("code:", body.code) \o FieldString("msg:", body.msg)
               \o FieldString("payload:", body.payload) \o <<"}">>

\* json.Valid
jsonValid(body) == body.kind # "text"

\* decoding of the envelope that demands the code field: an object without it
\* is reported as not decodable
UnmarshalCommon_CodeRequired(body) ==
    IF body.kind = "null" THEN [err |-> FALSE, Code |-> 0, Msg |-> <<>>]
    ELSE IF body.kind # "object" THEN [err |-> TRUE, Code |-> 0, Msg |-> <<>>]
    ELSE [err |-> ~(body.code.t = "num" /\ body.msg.t \in {"absent", "str"}),
          Code |-> IF body.code.t = "num" THEN body.code.n ELSE 0,
          Msg |-> IF body.msg.t = "str" THEN body.msg.s ELSE <<>>]

\* json.Unmarshal(responseBytes, &commenRes): a field of the wrong JSON type, or
\* a number that does not fit the int32 Code, is skipped and reported; null
\* stores nothing
UnmarshalCommon(body) ==
    IF body.kind = "null" THEN [err |-> FALSE, Code |-> 0, Msg |-> <<>>]
    ELSE IF body.kind # "object" THEN [err |-> TRUE, Code |-> 0, Msg |-> <<>>]
    ELSE LET codeFits == body.code.t = "num"
             codeOK == body.code.t = "absent" \/ codeFits
             msgOK == body.msg.t \in {"absent", "str"}
         IN [err |-> ~(codeOK /\ msgOK),
             Code |-> IF codeFits THEN body.code.n ELSE 0,
             Msg |-> IF body.msg.t = "str" THEN body.msg.s ELSE <<>>]

\* the value a caller passes as res: a pointer to a fresh result struct whose
\* payload field has JSON type want ("num": AffectedCount, "arr": Databases);
\* double when the caller passes the address of that pointer
OutValue(want, double, count, names) ==
    [want |-> want, double |-> double, isNil |-> FALSE,
     AffectedCount |-> count, Databases |-> names]

NewRes(want, double) == OutValue(want, double, 0, <<>>)

\* json.Unmarshal(responseBytes, &out): null sets the innermost settable
\* pointer to nil (the caller's own pointer when it passed its address), a
\* payload of the wrong JSON type is skipped and reported
UnmarshalOut(body, out) ==
    IF body.kind = "null"
    THEN [err |-> FALSE, out |-> [out EXCEPT !.isNil = out.double]]
    ELSE IF body.kind # "object" THEN [err |-> TRUE, out |-> out]
    ELSE IF body.payload.t = "absent" THEN [err |-> FALSE, out |-> out]
    ELSE IF body.payload.t = out.want
    THEN [err |-> FALSE,
          out |-> IF out.want = "num"
                  THEN [out EXCEPT !.AffectedCount = body.payload.n]
                  ELSE [out EXCEPT !.Databases = body.payload.s]]
    ELSE [err |-> TRUE, out |-> out]

\* ------------------------------------------------------------ Dispatcher

\* an *http.Response the transport hands back
Response(status, readOK, body) ==
    [StatusCode |-> status, readOK |-> readOK, body |-> body]

\* what a call of the Dispatcher yields: the error, the value behind res, the
\* number of c.cli.Do calls and the number of log lines written
Outcome(err, out, sent, logged) ==
    [err |-> err, out |-> out, sent |-> sent, logged |-> logged]

\* handleResponse decoding the body into out before it looks at the code
handleResponse_DecodeFirst(c, res, out) ==
    LET d == UnmarshalOut(res.body, out)
        commenRes == UnmarshalCommon(res.body) IN
    IF ~res.readOK \/ res.StatusCode \div 100 # 2 \/ ~jsonValid(res.body) \/ commenRes.err
    THEN Outcome(Err("Malformed", <<"invalid", "response">>), out, 1, 0)
    ELSE IF commenRes.Code # 0
    THEN Outcome(Err("Service",
                     <<"code:", ToString(commenRes.Code), "message:">> \o commenRes.Msg),
                 d.out, 1, 0)
    ELSE Outcome(IF d.err THEN Err("Malformed", <<"invalid", "response">>) ELSE Nil,
                 d.out, 1, 0)

\* handleResponse looking at the envelope before the HTTP status, so that an
\* envelope with code 0 passes whatever the status
handleResponse_EnvelopeFirst(c, res, out) ==
    LET commenRes == UnmarshalCommon(res.body)
        d == UnmarshalOut(res.body, out) IN
    IF ~res.readOK
    THEN Outcome(Err("Read", <<"unexpected", "EOF">>), out, 1, 0)
    ELSE IF jsonValid(res.body) /\ ~commenRes.err /\ commenRes.Code = 0 /\ ~d.err
    THEN Outcome(Nil, d.out, 1, 0)
    ELSE IF res.StatusCode \div 100 # 2
    THEN Outcome(Err("Transport", <<"response", "code", "is">>), out, 1, 0)
    ELSE IF ~jsonValid(res.body) \/ commenRes.err \/ commenRes.Code = 0
    THEN Outcome(Err("Malformed", <<"invalid", "response">>), out, 1, 0)
    ELSE Outcome(Err("Service",
                     <<"code:", ToString(commenRes.Code), "message:">> \o commenRes.Msg),
                 out, 1, 0)

handleResponse(c, res, out) ==
    LET logged == IF c.debug THEN 1 ELSE 0 IN
    IF ~res.readOK
    THEN Outcome(Err("Read", <<"unexpected", "EOF">>), out, 1, 0)
    ELSE IF res.StatusCode \div 100 # 2
    THEN Outcome(Err("Transport",
                     <<"response", "code", "is", ToString(res.StatusCode)>>
                       \o BodyString(res.body)),
                 out, 1, logged)
    ELSE IF ~jsonValid(res.body)
    THEN Outcome(Err("Malformed",
                     <<"invalid", "response", "content:">> \o BodyString(res.body)),
                 out, 1, logged)
    ELSE LET commenRes == UnmarshalCommon(res.body) IN
         IF commenRes.err
         THEN Outcome(Err("Malformed",
                          <<"json.Unmarshal", "failed", "with", "content:">>
                            \o BodyString(res.body) \o <<":", "json:", "cannot", "unmarshal">>),
                      out, 1, logged)
         ELSE IF commenRes.Code # 0
         THEN Outcome(Err("Service",
                          <<"code:", ToString(commenRes.Code), "message:">> \o commenRes.Msg),
                      out, 1, logged)
         ELSE LET d == UnmarshalOut(res.body, out) IN
              IF d.err
              THEN Outcome(Err("Malformed",
                               <<"json.Unmarshal", "failed", "with", "content:">>
                                 \o BodyString(res.body) \o <<":", "json:", "cannot", "unmarshal">>),
                           d.out, 1, logged)
              ELSE Outcome(Nil, d.out, 1, logged)

\* a control character in a URL makes url.Parse, and so http.NewRequest, fail
CTL == "<LF>"

\* http.NewRequest(strings.ToUpper(method), c.url+path, reqBody) succeeds
NewRequestOK(method, url) == ~Contains(url, <<CTL>>)

\* a request value: its operation's verb and path (api.Method, api.Path), the
\* scope fields it carries, and whether encoding/json can encode it
Req(kind, method, path, database, collection, alias, encodable) ==
    [kind |-> kind, method |-> method, path |-> path, Database |-> database,
     Collection |-> collection, Alias |-> alias, encodable |-> encodable]

\* what the transport does with one request: c.cli.Do fails (doErr) or hands
\* back res; served when the request reached the service and res is its answer
RoundTrip(doErr, res, served) == [doErr |-> doErr, res |-> res, served |-> served]

\* Request sending the request a second time when the first attempt fails
Request_Retry(c, req, rt, out) ==
    IF ~req.encodable
    THEN Outcome(Err("Encode", <<"json:", "unsupported", "type">>), out, 0, 0)
    ELSE IF ~NewRequestOK(req.method, c.url \o req.path)
    THEN Outcome(Err("NewRequest", <<"parse:", "invalid", "control", "character", "in", "URL">>),
                 out, 0, 0)
    ELSE IF rt.doErr
    THEN Outcome(Err("Do", <<"dial", "tcp:", "connection", "refused">>), out, 2, 0)
    ELSE LET r == handleResponse(c, rt.res, out) IN
         Outcome(r.err, r.out, IF r.err.kind = "Transport" THEN 2 ELSE 1, r.logged)

\* Request reading the response body for the debug log and leaving none of it
\* for handleResponse
Request_DebugDrainsBody(c, req, rt, out) ==
    IF ~req.encodable
    THEN Outcome(Err("Encode", <<"json:", "unsupported", "type">>), out, 0, 0)
    ELSE IF ~NewRequestOK(req.method, c.url \o req.path)
    THEN Outcome(Err("NewRequest", <<"parse:", "invalid", "control", "character", "in", "URL">>),
                 out, 0, 0)
    ELSE LET logged == IF c.debug THEN 1 ELSE 0 IN
         IF rt.doErr
         THEN Outcome(Err("Do", <<"dial", "tcp:", "connection", "refused">>), out, 1, logged)
         ELSE LET r == handleResponse(c,
                                      IF c.debug
                                      THEN [rt.res EXCEPT !.body = TextBody(<<>>)]
                                      ELSE rt.res,
                                      out) IN
              Outcome(r.err, r.out, 1, logged + r.logged)

Request(c, req, rt, out) ==
    IF ~req.encodable
    THEN Outcome(Err("Encode", <<"json:", "unsupported", "type">>), out, 0, 0)
    ELSE IF ~NewRequestOK(req.method, c.url \o req.path)
    THEN Outcome(Err("NewRequest", <<"parse:", "invalid", "control", "character", "in", "URL">>),
                 out, 0, 0)
    ELSE LET logged == IF c.debug THEN 1 ELSE 0 IN
         IF rt.doErr
         THEN Outcome(Err("Do", <<"dial", "tcp:", "connection", "refused">>), out, 1, logged)
         ELSE LET r == handleResponse(c, rt.res, out) IN
              Outcome(r.err, r.out, 1, logged + r.logged)

\* strings.ToUpper on the verbs api.Method gives
ToUpper(method) ==
    IF method = "post" THEN "POST"
    ELSE IF method = "get" THEN "GET"
    ELSE method

\* the HTTP request Request builds and hands to c.cli.Do
HttpRequest(c, req) ==
    [Method |-> ToUpper(req.method),
     URL |-> c.url \o req.path,
     Authorization |-> <<"Bearer", "account=">> \o c.username \o <<"&api_key=">> \o c.key,
     ContentType |-> "application/json",
     SdkVersion |-> "SDKVersion",
     Body |-> [Database |-> req.Database, Collection |-> req.Collection, Alias |-> req.Alias]]

\* ------------------------------------------------------ capability handles

\* the Client a handle's embedded SdkClient points to
Deref(ref) == cli

\* the database names the callers use: db1, db2, ...
DbNames == {<<"db", ToString(n)>> : n \in 1..NumDb}

NilDatabase ==
    [isNil |-> TRUE, DatabaseName |-> <<>>,
     CollectionInterface |-> [SdkClient |-> "nil", databaseName |-> <<>>]]

\* what a public operation hands back and what it did: the returned error, the
\* Dispatcher's error, the returned handle, list or count, and the number of
\* Dispatcher calls and of HTTP requests it made
OpResult(ret, derr, db, list, count, nRequest, nSend) ==
    [ret |-> ret, derr |-> derr, db |-> db, list |-> list, count |-> count,
     nRequest |-> nRequest, nSend |-> nSend]

\* Database leaving the collection implementer without its database name
Database_Unscoped(i, name) ==
    [isNil |-> FALSE, DatabaseName |-> name,
     CollectionInterface |-> [SdkClient |-> i.SdkClient, databaseName |-> <<>>]]

Database(i, name) ==
    [isNil |-> FALSE, DatabaseName |-> name,
     CollectionInterface |-> [SdkClient |-> i.SdkClient, databaseName |-> name]]

CreateReq(name) ==
    Req("createDatabase", "post", <<"/database/create">>, name, <<>>, <<>>, TRUE)
DropReq(name) ==
    Req("dropDatabase", "post", <<"/database/drop">>, name, <<>>, <<>>, TRUE)
ListReq ==
    Req("listDatabase", "get", <<"/database/list">>, <<>>, <<>>, <<>>, TRUE)
SetReq(database, collection, alias) ==
    Req("setAlias", "post", <<"/alias/set">>, database, collection, alias, TRUE)
DeleteReq(database, alias) ==
    Req("deleteAlias", "post", <<"/alias/delete">>, database, <<>>, alias, TRUE)

CreateDatabase(i, name, rt) ==
    LET r == Request(Deref(i.SdkClient), CreateReq(name), rt, NewRes("num", FALSE)) IN
    IF r.err # Nil
    THEN OpResult(r.err, r.err, NilDatabase, <<>>, 0, 1, r.sent)
    ELSE OpResult(r.err, r.err, Database(i, name), <<>>, 0, 1, r.sent)

\* DropDatabase handing every error of the Dispatcher back
DropDatabase_NoAbsorb(i, name, rt) ==
    LET r == Request(Deref(i.SdkClient), DropReq(name), rt, NewRes("num", FALSE)) IN
    OpResult(r.err, r.err, NilDatabase, <<>>, 0, 1, r.sent)

DropDatabase(i, name, rt) ==
    LET r == Request(Deref(i.SdkClient), DropReq(name), rt, NewRes("num", FALSE)) IN
    IF r.err # Nil /\ Contains(r.err.text, NotExist)
    THEN OpResult(Nil, r.err, NilDatabase, <<>>, 0, 1, r.sent)
    ELSE OpResult(r.err, r.err, NilDatabase, <<>>, 0, 1, r.sent)

ListDatabase(i, rt) ==
    LET r == Request(Deref(i.SdkClient), ListReq, rt, NewRes("arr", FALSE)) IN
    IF r.err # Nil
    THEN OpResult(r.err, r.err, NilDatabase, <<>>, 0, 1, r.sent)
    ELSE OpResult(Nil, r.err, NilDatabase,
                  [k \in 1..Len(r.out.Databases) |-> Database(i, r.out.Databases[k])],
                  0, 1, r.sent)

\* entity.Database.IsAIDatabase: the database kind recorded in the handle
IsAIDatabase(database) == database.dbType = "AI_DB"

\* entity.AIDbTypeError
AIDbTypeError == Err("Capability", <<"the", "database", "is", "an", "AI", "database">>)

\* result.AffectedCount = res.AffectedCount with res nil: a nil pointer dereference
Panic == Err("panic", <<"invalid", "memory", "address", "or", "nil", "pointer", "dereference">>)

\* SetAlias without the gate on the database kind
SetAlias_NoGate(i, collectionName, aliasName, rt) ==
    LET r == Request(Deref(i.SdkClient),
                     SetReq(i.database.DatabaseName, collectionName, aliasName),
                     rt, NewRes("num", TRUE)) IN
    IF r.err # Nil
    THEN OpResult(r.err, r.err, NilDatabase, <<>>, 0, 1, r.sent)
    ELSE IF r.out.isNil
    THEN OpResult(Panic, r.err, NilDatabase, <<>>, 0, 1, r.sent)
    ELSE OpResult(Nil, r.err, NilDatabase, <<>>, r.out.AffectedCount, 1, r.sent)

SetAlias(i, collectionName, aliasName, rt) ==
    IF IsAIDatabase(i.database)
    THEN OpResult(AIDbTypeError, Nil, NilDatabase, <<>>, 0, 0, 0)
    ELSE LET r == Request(Deref(i.SdkClient),
                          SetReq(i.database.DatabaseName, collectionName, aliasName),
                          rt, NewRes("num", TRUE)) IN
         IF r.err # Nil
         THEN OpResult(r.err, r.err, NilDatabase, <<>>, 0, 1, r.sent)
         ELSE IF r.out.isNil
         THEN OpResult(Panic, r.err, NilDatabase, <<>>, 0, 1, r.sent)
         ELSE OpResult(Nil, r.err, NilDatabase, <<>>, r.out.AffectedCount, 1, r.sent)

DeleteAlias(i, aliasName, rt) ==
    IF IsAIDatabase(i.database)
    THEN OpResult(AIDbTypeError, Nil, NilDatabase, <<>>, 0, 0, 0)
    ELSE LET r == Request(Deref(i.SdkClient),
                          DeleteReq(i.database.DatabaseName, aliasName),
                          rt, NewRes("num", TRUE)) IN
         IF r.err # Nil
         THEN OpResult(r.err, r.err, NilDatabase, <<>>, 0, 1, r.sent)
         ELSE IF r.out.isNil
         THEN OpResult(Panic, r.err, NilDatabase, <<>>, 0, 1, r.sent)
         ELSE OpResult(Nil, r.err, NilDatabase, <<>>, r.out.AffectedCount, 1, r.sent)

\* ------------------------------------------------------ the remote service

\* the names in S as a list
RECURSIVE SetToSeq(_)
SetToSeq(S) ==
    IF S = {} THEN <<>>
    ELSE LET x == CHOOSE y \in S : TRUE IN <<x>> \o SetToSeq(S \ {x})

OkBody(payload) == ObjectBody(JNum(0), JStr(<<"operation", "success">>), payload)
FailBody(msg) == ObjectBody(JNum(1), JStr(msg), JAbsent)

\* the service's answer to a request when its databases are d
ServerReply(d, req) ==
    Response(200, TRUE,
      IF req.kind = "createDatabase"
      THEN IF req.Database \in d
           THEN FailBody(<<"database", "already", "exist">>)
           ELSE OkBody(JNum(1))
      ELSE IF req.kind = "dropDatabase"
      THEN IF req.Database \in d
           THEN OkBody(JNum(1))
           ELSE FailBody(<<"database", "not", "exist">>)
      ELSE IF req.kind = "listDatabase"
      THEN OkBody(JArr(SetToSeq(d)))
      ELSE IF req.Database \in d
           THEN OkBody(JNum(1))
           ELSE FailBody(<<"database", "not", "exist">>))

\* the service's databases after it served req
ServerNext(d, req) ==
    IF req.kind = "createDatabase" THEN d \cup {req.Database}
    ELSE IF req.kind = "dropDatabase" THEN d \ {req.Database}
    ELSE d

\* ------------------------------------------------------ inputs

\* HTTP statuses on both sides of the 2xx class
Statuses == {199, 200, 299, 300}

Msgs == {<<>>, <<"database", "not", "exist">>, <<"quota", "exceeded">>}

\* the code field: absent, a string, a number beyond int32, or a small number
CodeFields ==
    {JAbsent, JStr(<<"1">>), JBig} \cup {JNum(n) : n \in (-1)..MaxCode}
MsgFields == {JAbsent, JNum(7)} \cup {JStr(m) : m \in Msgs}
PayloadFields == {JAbsent, JNum(1), JArr(<<<<"db", "1">>>>)}

TextBodies == {TextBody(<<"bad", "gateway">>), TextBody(<<"upstream", "does", "not", "exist">>)}

Bodies ==
    TextBodies \cup {NullBody, ArrayBody}
      \cup {ObjectBody(c, m, p) : c \in CodeFields, m \in MsgFields, p \in PayloadFields}

\* every outcome of one round trip the Dispatcher can meet
RoundTrips ==
    {RoundTrip(TRUE, Response(0, FALSE, NullBody), FALSE),
     RoundTrip(FALSE, Response(200, FALSE, NullBody), FALSE)}
      \cup {RoundTrip(FALSE, Response(st, TRUE, b), FALSE) : st \in Statuses, b \in Bodies}

\* the failures a handle operation is run against: no connection, the body
\* cut short, answers of a proxy or a broken service
FaultBodies ==
    TextBodies \cup
      {NullBody,
       ObjectBody(JNum(1), JStr(<<"quota", "exceeded">>), JAbsent),
       ObjectBody(JNum(1), JStr(<<"collection", "not", "exist">>), JAbsent),
       ObjectBody(JNum(0), JAbsent, JStr(<<"x">>)),
       ObjectBody(JNum(0), JNum(7), JAbsent)}

Faults ==
    {RoundTrip(TRUE, Response(0, FALSE, NullBody), FALSE),
     RoundTrip(FALSE, Response(200, FALSE, NullBody), FALSE)}
      \cup {RoundTrip(FALSE, Response(st, TRUE, b), FALSE) : st \in {200, 500}, b \in FaultBodies}

\* the round trips of a request sent while the service holds d
RoundTripsOf(d, req) == {RoundTrip(FALSE, ServerReply(d, req), TRUE)} \cup Faults

GoodUrl == <<"h", "t", "t", "p", ":", "/", "/", "h">>
Urls ==
    {GoodUrl,
     <<"h", "t", "t", "p">>,
     <<"h", "t", "t", "p", "s", ":", "/", "/", "h">>,
     <<"h", "t", "t", "p", ":", "/", "/", "h", CTL>>,
     <<"h", "t", "t">>,
     <<>>,
     <<"f", "t", "p", ":", "/", "/", "h">>,
     <<"x", "h", "t", "t", "p">>}
Accounts == {<<>>, <<"root">>}
Keys == {<<>>, <<"k">>}

OptVals(default) == ((-1)..MaxOptVal) \cup {default}

Options ==
    {NilOption} \cup
      {ClientOption(t, m, i, r, tr) :
         t \in OptVals(DefaultTimeout),
         m \in OptVals(DefaultMaxIdldConnPerHost),
         i \in OptVals(DefaultIdleConnTimeout),
         r \in {"", EventualConsistency, StrongConsistency},
         tr \in {"nil", "custom"}}

\* ------------------------------------------------------ handle operations

\* the client of the test suite's init(): MaxIdldConnPerHost 50, IdleConnTimeout 30s
TestClient ==
    NewClient(GoodUrl, <<"root">>, <<"k">>,
              ClientOption(0, 50, 30, "", "nil")).cli

\* a client whose URL has the http prefix and does not parse
BadUrlClient ==
    NewClient(GoodUrl \o <<CTL>>, <<"root">>, <<"k">>, NilOption).cli

NoResult == OpResult(Nil, Nil, NilDatabase, <<>>, 0, 0, 0)

\* the record of the latest public call: the operation, the database name it
\* was about and the kind of that database in the handle, whether the request
\* value can be encoded, whether the service served the call, whether the
\* database was missing at the service when the call began, how the call
\* before it ended if that was a drop of the same name ("no" if it was not),
\* and what the call handed back
Last(op, name, dbType, encodable, served, missing, repeat, r) ==
    [op |-> op, name |-> name, dbType |-> dbType, encodable |-> encodable,
     served |-> served, missing |-> missing, repeat |-> repeat, r |-> r]

CollNames == {<<"col1">>}
AliasNames == {<<"alias1">>, <<"alias2">>}

\* the alias handles of ordinary and of AI databases
AliasHandles ==
    {[SdkClient |-> ClientRef, database |-> [DatabaseName |-> n, dbType |-> t]] :
       n \in DbNames, t \in {"BASE_DB", "AI_DB"}}

Init ==
    /\ cli \in {TestClient, BadUrlClient}
    /\ dbs = {}
    /\ last = Last("init", <<>>, "BASE_DB", TRUE, FALSE, FALSE, "no", NoResult)

\* the request reached the service and its answer came back
WasServed(rt, r) == rt.served /\ r.nSend = 1

\* the service's databases after a call that made nSend requests over rt
Served(req, rt, r) == IF WasServed(rt, r) THEN ServerNext(dbs, req) ELSE dbs

\* how the latest call ended, if it was a drop of name: served by the service,
\* or not served and ended with nil or with an error; "no" if it was no such drop
Repeat(name) ==
    IF last.op = "DropDatabase" /\ last.name = name
    THEN (IF last.served THEN "served"
          ELSE IF last.r.ret = Nil THEN "nil" ELSE "error")
    ELSE "no"

CallCreateDatabase ==
    \E name \in DbNames : \E rt \in RoundTripsOf(dbs, CreateReq(name)) :
       LET r == CreateDatabase(cli.DatabaseInterface, name, rt) IN
       /\ last' = Last("CreateDatabase", name, "BASE_DB", TRUE, WasServed(rt, r),
                       name \notin dbs, "no", r)
       /\ dbs' = Served(CreateReq(name), rt, r)
       /\ UNCHANGED cli

CallDropDatabase ==
    \E name \in DbNames : \E rt \in RoundTripsOf(dbs, DropReq(name)) :
       LET r == DropDatabase(cli.DatabaseInterface, name, rt) IN
       /\ last' = Last("DropDatabase", name, "BASE_DB", TRUE, WasServed(rt, r),
                       name \notin dbs, Repeat(name), r)
       /\ dbs' = Served(DropReq(name), rt, r)
       /\ UNCHANGED cli

CallListDatabase ==
    \E rt \in RoundTripsOf(dbs, ListReq) :
       LET r == ListDatabase(cli.DatabaseInterface, rt) IN
       /\ last' = Last("ListDatabase", <<>>, "BASE_DB", TRUE, WasServed(rt, r),
                       FALSE, "no", r)
       /\ dbs' = Served(ListReq, rt, r)
       /\ UNCHANGED cli

CallDatabase ==
    \E name \in DbNames :
       /\ last' = Last("Database", name, "BASE_DB", TRUE, FALSE, name \notin dbs, "no",
                       OpResult(Nil, Nil, Database(cli.DatabaseInterface, name), <<>>, 0, 0, 0))
       /\ UNCHANGED <<cli, dbs>>

CallSetAlias ==
    \E i \in AliasHandles, coll \in CollNames, alias \in AliasNames :
       LET req == SetReq(i.database.DatabaseName, coll, alias) IN
       \E rt \in RoundTripsOf(dbs, req) :
          LET r == SetAlias(i, coll, alias, rt) IN
          /\ last' = Last("SetAlias", i.database.DatabaseName, i.database.dbType, TRUE,
                          WasServed(rt, r), i.database.DatabaseName \notin dbs, "no", r)
          /\ dbs' = Served(req, rt, r)
          /\ UNCHANGED cli

CallDeleteAlias ==
    \E i \in AliasHandles, alias \in AliasNames :
       LET req == DeleteReq(i.database.DatabaseName, alias) IN
       \E rt \in RoundTripsOf(dbs, req) :
          LET r == DeleteAlias(i, alias, rt) IN
          /\ last' = Last("DeleteAlias", i.database.DatabaseName, i.database.dbType, TRUE,
                          WasServed(rt, r), i.database.DatabaseName \notin dbs, "no", r)
          /\ dbs' = Served(req, rt, r)
          /\ UNCHANGED cli

\* the request values given to Request directly
ReqValues == {Req("any", "post", <<"/any">>, <<>>, <<>>, <<>>, e) : e \in BOOLEAN}

\* Request called on the client itself, with any request value
CallClientRequest ==
    \E req \in ReqValues, rt \in Faults :
       LET o == Request(cli, req, rt, NewRes("num", FALSE)) IN
       /\ last' = Last("Request", <<>>, "BASE_DB", req.encodable, FALSE, FALSE, "no",
                       OpResult(o.err, o.err, NilDatabase, <<>>, 0, 1, o.sent))
       /\ UNCHANGED <<cli, dbs>>

\* Client.Debug
Debug(c, v) == [c EXCEPT !.debug = v]

CallDebug ==
    /\ ~cli.isNil
    /\ \E v \in BOOLEAN : cli' = Debug(cli, v)
    /\ UNCHANGED <<dbs, last>>

Next ==
    \/ CallCreateDatabase
    \/ CallDropDatabase
    \/ CallListDatabase
    \/ CallDatabase
    \/ CallSetAlias
    \/ CallDeleteAlias
    \/ CallClientRequest

Spec == Init /\ [][Next]_vars

\* ------------------------------------------------------ the Dispatcher alone

\* the values behind res before the call: fresh, or holding an earlier result
OutValues ==
    {OutValue(w, d, c[1], c[2]) :
       w \in {"num", "arr"}, d \in BOOLEAN, c \in {<<0, <<>>>>, <<7, <<<<"old">>>>>>}}

InitRequest ==
    /\ cli \in {NewClient(u, <<"root">>, <<"k">>, NilOption).cli :
                  u \in {GoodUrl, GoodUrl \o <<CTL>>}}
    /\ dbs = {}
    /\ last = [op |-> "init"]

CallRequest ==
    /\ last.op = "init"
    /\ \E req \in ReqValues, rt \in RoundTrips, out \in OutValues :
          last' = [op |-> "Request", req |-> req, rt |-> rt, out |-> out,
                   r |-> Request(cli, req, rt, out)]
    /\ UNCHANGED <<cli, dbs>>

NextRequest == CallRequest \/ CallDebug

SpecRequest == InitRequest /\ [][NextRequest]_vars

\* ------------------------------------------------------ construction

\* Client.WithTimeout
\* WithTimeout that sets the timeout of the HTTP client alone
WithTimeout_HttpOnly(c, d) == [c EXCEPT !.httpTimeout = d]

WithTimeout(c, d) == [c EXCEPT !.option.Timeout = d, !.httpTimeout = d]

InitNew ==
    /\ cli = NoClient
    /\ dbs = {}
    /\ last = [op |-> "init"]

CallNewClient ==
    /\ last.op = "init"
    /\ \E url \in Urls, username \in Accounts, key \in Keys, option \in Options :
          LET n == NewClient(url, username, key, option) IN
          /\ cli' = n.cli
          /\ last' = [op |-> "NewClient", url |-> url, username |-> username,
                      key |-> key, option |-> option,
                      merged |-> optionMerge(IF option.isNil THEN defaultOption ELSE option),
                      err |-> n.err]
    /\ UNCHANGED dbs

CallWithTimeout ==
    /\ ~cli.isNil
    /\ \E d \in OptVals(DefaultTimeout) :
          /\ cli' = WithTimeout(cli, d)
          /\ last' = [op |-> "WithTimeout", d |-> d]
    /\ UNCHANGED dbs

NextNew == CallNewClient \/ CallWithTimeout \/ CallDebug

SpecNew == InitNew /\ [][NextNew]_vars

\* ------------------------------------------------------ lifecycle

\* Client.Options: the configuration the client holds
Client_Options(c) == c.option

\* Client.Close: closes the idle connections of the HTTP client's pool; no
\* field of the client is assigned
Close(c) == c

\* the client with the defaults alone
DefaultClient == NewClient(GoodUrl, <<"root">>, <<"k">>, NilOption).cli

\* a constructed client, before any call on it
InitLife ==
    /\ cli \in {TestClient, DefaultClient}
    /\ dbs = {}
    /\ last = [op |-> "init"]

CallClose ==
    /\ ~cli.isNil
    /\ cli' = Close(cli)
    /\ last' = [op |-> "Close"]
    /\ UNCHANGED dbs

NextLife == CallClientRequest \/ CallWithTimeout \/ CallDebug \/ CallClose

SpecLife == InitLife /\ [][NextLife]_vars

\* ------------------------------------------------------ concurrent calls

Threads == 1..NumThreads

\* the round trips concurrent calls are run against: no connection, a proxy's
\* answer, a Service Error, a result
ConcRoundTrips ==
    {RoundTrip(TRUE, Response(0, FALSE, NullBody), FALSE),
     RoundTrip(FALSE, Response(500, TRUE, TextBody(<<"bad", "gateway">>)), FALSE),
     RoundTrip(FALSE, Response(200, TRUE,
                               ObjectBody(JNum(1), JStr(<<"quota", "exceeded">>), JAbsent)), FALSE),
     RoundTrip(FALSE, Response(200, TRUE, ObjectBody(JNum(0), JAbsent, JNum(1))), FALSE)}

NoRoundTrip == RoundTrip(TRUE, Response(0, FALSE, NullBody), FALSE)

ConcOuts == {NewRes("num", FALSE), OutValue("num", FALSE, 7, <<>>)}

\* one caller's Request: where it stands (idle; sent: inside c.cli.Do; done),
\* its request value, the round trip it got, its res argument, whether another
\* call was inside c.cli.Do when it began, and its outcome so far
Call(pc, req, rt, out, overlap, r) ==
    [pc |-> pc, req |-> req, rt |-> rt, out |-> out, overlap |-> overlap, r |-> r]

IdleCall ==
    Call("idle", Req("any", "post", <<"/any">>, <<>>, <<>>, <<>>, TRUE), NoRoundTrip,
         NewRes("num", FALSE), FALSE, Outcome(Nil, NewRes("num", FALSE), 0, 0))

\* Request up to the call of c.cli.Do: encode, http.NewRequest, the debug log
BeginRequest(c, calls, t, req, out) ==
    LET overlap == \E u \in Threads \ {t} : calls[u].pc = "sent" IN
    IF ~req.encodable
    THEN Call("done", req, NoRoundTrip, out, overlap,
              Outcome(Err("Encode", <<"json:", "unsupported", "type">>), out, 0, 0))
    ELSE IF ~NewRequestOK(req.method, c.url \o req.path)
    THEN Call("done", req, NoRoundTrip, out, overlap,
              Outcome(Err("NewRequest",
                          <<"parse:", "invalid", "control", "character", "in", "URL">>),
                      out, 0, 0))
    ELSE Call("sent", req, NoRoundTrip, out, overlap,
              Outcome(Nil, out, 1, IF c.debug THEN 1 ELSE 0))

\* the end of Request in which every call decodes into the res of the first
\* call that is inside c.cli.Do
EndRequest_SharedOut(c, calls, t, rt) ==
    LET call == calls[t]
        first == CHOOSE u \in Threads :
                    /\ calls[u].pc = "sent"
                    /\ \A v \in Threads : calls[v].pc = "sent" => u <= v
        h == handleResponse(c, rt.res, calls[first].out) IN
    IF rt.doErr
    THEN [call EXCEPT !.pc = "done", !.rt = rt,
                      !.r = Outcome(Err("Do", <<"dial", "tcp:", "connection", "refused">>),
                                    call.out, 1, call.r.logged)]
    ELSE [call EXCEPT !.pc = "done", !.rt = rt,
                      !.r = Outcome(h.err, h.out, 1, call.r.logged + h.logged)]

\* Request from the return of c.cli.Do: its error, or handleResponse on the
\* response and the caller's res
EndRequest(c, calls, t, rt) ==
    LET call == calls[t]
        h == handleResponse(c, rt.res, call.out) IN
    IF rt.doErr
    THEN [call EXCEPT !.pc = "done", !.rt = rt,
                      !.r = Outcome(Err("Do", <<"dial", "tcp:", "connection", "refused">>),
                                    call.out, 1, call.r.logged)]
    ELSE [call EXCEPT !.pc = "done", !.rt = rt,
                      !.r = Outcome(h.err, h.out, 1, call.r.logged + h.logged)]

\* one client shared by the callers, none of them in a call
InitConc ==
    /\ cli \in {TestClient, Debug(TestClient, TRUE), BadUrlClient}
    /\ dbs = {}
    /\ last = [op |-> "calls", calls |-> [t \in Threads |-> IdleCall]]

CallBeginRequest(t) ==
    /\ last.calls[t].pc # "sent"
    /\ \E req \in ReqValues, out \in ConcOuts :
          last' = [last EXCEPT !.calls[t] = BeginRequest(cli, last.calls, t, req, out)]
    /\ UNCHANGED <<cli, dbs>>

CallEndRequest(t) ==
    /\ last.calls[t].pc = "sent"
    /\ \E rt \in ConcRoundTrips :
          last' = [last EXCEPT !.calls[t] = EndRequest(cli, last.calls, t, rt)]
    /\ UNCHANGED <<cli, dbs>>

NextConc ==
    \/ \E t \in Threads : CallBeginRequest(t)
    \/ \E t \in Threads : CallEndRequest(t)

SpecConc == InitConc /\ [][NextConc]_vars

\* ====================================================== the claims

\* ------------------------------------------------------ Dispatcher (SpecRequest)

\* the latest call was a Request whose round trip handed back a response that
\* could be read in full
GotResponse ==
    /\ last.op = "Request"
    /\ last.r.sent = 1
    /\ ~last.rt.doErr
    /\ last.rt.res.readOK

Is2xx(res) == res.StatusCode >= 200 /\ res.StatusCode <= 299

\* the body is a JSON object whose code and msg have the envelope's types
IsEnvelope(body) ==
    /\ body.kind = "object"
    /\ body.code.t \in {"absent", "num"}
    /\ body.msg.t \in {"absent", "str"}

\* the body carries an integer code other than 0
CodeNonZero(body) == body.kind = "object" /\ body.code.t = "num" /\ body.code.n # 0

\* the payload of the body fits the result behind out
PayloadDecodes(body, out) ==
    body.kind = "null" \/ (body.kind = "object" /\ body.payload.t \in {"absent", out.want})

\* C1: a 2xx response with a valid JSON envelope whose code is not 0 makes
\* Request return the Service Error that reads that code and msg, and leaves
\* the value behind out exactly as it was before the call.
C1_ServiceErrorLeavesOut ==
    (GotResponse /\ Is2xx(last.rt.res) /\ IsEnvelope(last.rt.res.body)
       /\ CodeNonZero(last.rt.res.body))
    => /\ last.r.err.kind = "Service"
       /\ last.r.err.text =
            <<"code:", ToString(last.rt.res.body.code.n), "message:">>
              \o last.rt.res.body.msg.s
       /\ last.r.out = last.out

\* a Service Error answer that carries a payload of the type out expects, to a
\* call whose out already held an earlier result
C1_Witness ==
    /\ GotResponse /\ Is2xx(last.rt.res) /\ IsEnvelope(last.rt.res.body)
    /\ CodeNonZero(last.rt.res.body)
    /\ last.rt.res.body.msg.t = "str" /\ last.rt.res.body.msg.s # <<>>
    /\ last.rt.res.body.payload.t = last.out.want
    /\ last.out.AffectedCount = 7
    /\ last.r.err.kind = "Service"
    /\ last.r.out = last.out

\* C2 as stated: not 2xx gives a Transport Error whatever the body; else a body
\* that is no JSON gives a Malformed Response error; else a code other than 0
\* gives a Service Error; nil only for 2xx, valid JSON, code 0 and a body that
\* decodes into out.
C2_AsStated ==
    GotResponse =>
      LET res == last.rt.res
          err == last.r.err IN
      /\ ~Is2xx(res) => err.kind = "Transport"
      /\ (Is2xx(res) /\ ~jsonValid(res.body)) => err.kind = "Malformed"
      /\ (Is2xx(res) /\ jsonValid(res.body) /\ CodeNonZero(res.body)) => err.kind = "Service"
      /\ err = Nil => /\ Is2xx(res) /\ jsonValid(res.body)
                      /\ ~CodeNonZero(res.body)
                      /\ PayloadDecodes(res.body, last.out)

\* C2, amended: between the JSON check and the code check stands the decoding
\* of the envelope: valid JSON whose code or msg does not decode (not an
\* object, a code that is no int32, a msg that is no string) gives a Malformed
\* Response error even when its code is not 0; the decision is total.
C2_Classification ==
    GotResponse =>
      LET res == last.rt.res
          err == last.r.err IN
      /\ err.kind \in {"Transport", "Malformed", "Service", "nil"}
      /\ err.kind = "Transport" <=> ~Is2xx(res)
      /\ err.kind = "Malformed" <=>
           /\ Is2xx(res)
           /\ \/ ~jsonValid(res.body)
              \/ res.body.kind = "array"
              \/ (res.body.kind = "object" /\ ~IsEnvelope(res.body))
              \/ (~CodeNonZero(res.body) /\ ~PayloadDecodes(res.body, last.out))
      /\ err.kind = "Service" <=>
           Is2xx(res) /\ IsEnvelope(res.body) /\ CodeNonZero(res.body)
      /\ err = Nil <=>
           /\ Is2xx(res) /\ jsonValid(res.body)
           /\ res.body.kind = "null" \/ IsEnvelope(res.body)
           /\ ~CodeNonZero(res.body)
           /\ PayloadDecodes(res.body, last.out)

\* a 2xx JSON object with code 1 whose msg is a number: Malformed, no Service Error
C2_Witness ==
    /\ GotResponse /\ Is2xx(last.rt.res)
    /\ CodeNonZero(last.rt.res.body)
    /\ last.rt.res.body.msg.t = "num"
    /\ last.r.err.kind = "Malformed"

\* ------------------------------------------------------ handles (Spec)

\* C3: SetAlias and DeleteAlias on a handle whose database is AI-managed return
\* AIDbTypeError, call the Dispatcher zero times and send nothing, whatever the
\* names and whatever the service would have answered.
C3_AIGate ==
    (last.op \in {"SetAlias", "DeleteAlias"} /\ last.dbType = "AI_DB")
    => /\ last.r.ret = AIDbTypeError
       /\ last.r.nRequest = 0
       /\ last.r.nSend = 0
       /\ ~last.served

\* SetAlias on the AI handle of a database the service holds: a request, had
\* one been sent, would have succeeded
C3_Witness ==
    /\ last.op = "SetAlias" /\ last.dbType = "AI_DB"
    /\ ~last.missing
    /\ last.r.ret = AIDbTypeError

C5_ErrorsPassUnchanged ==
    (last.op \in {"CreateDatabase", "DropDatabase", "ListDatabase", "SetAlias", "DeleteAlias"}
       /\ last.r.derr # Nil)
    => \/ last.r.ret = last.r.derr
       \/ /\ last.op = "DropDatabase"
          /\ last.r.derr.kind = "Service"
          /\ Contains(last.r.derr.text, NotExist)
          /\ last.r.ret = Nil

\* C9 as stated: every public operation calls Request at most once, and a call
\* of Request whose request value encodes sends exactly one HTTP request.
C9_AsStated ==
    last.op # "init"
    => /\ last.r.nRequest <= 1
       /\ last.r.nSend <= 1
       /\ (last.r.nRequest = 1 /\ last.encodable) => last.r.nSend = 1

\* C9, amended: every public operation calls Request at most once; a call of
\* Request sends exactly one HTTP request when the request value encodes and
\* http.NewRequest accepts the URL, and none otherwise; no outcome sends twice.
C9_SingleRoundTrip ==
    last.op # "init"
    => /\ last.r.nRequest <= 1
       /\ last.r.nSend <= last.r.nRequest
       /\ last.r.nSend = 1 <=>
            (last.r.nRequest = 1 /\ last.encodable /\ ~Contains(cli.url, <<CTL>>))

\* a drop that met a non-2xx answer: one request sent, the error handed back
C9_Witness ==
    /\ last.op = "DropDatabase"
    /\ last.r.derr.kind = "Transport"
    /\ last.r.ret = last.r.derr
    /\ last.r.nRequest = 1
    /\ last.r.nSend = 1

\* C10: Database(name) fails for no name, calls the Dispatcher zero times,
\* leaves the client and the service as they were, and returns a handle whose
\* DatabaseName and whose collection implementer's databaseName are name and
\* whose SdkClient is the root's.
C10_DatabaseIsLocal ==
    [][(last'.op = "Database" /\ last' # last)
       => /\ cli' = cli
          /\ dbs' = dbs
          /\ last'.r.ret = Nil
          /\ last'.r.nRequest = 0
          /\ last'.r.nSend = 0
          /\ ~last'.r.db.isNil
          /\ last'.r.db.DatabaseName = last'.name
          /\ last'.r.db.CollectionInterface.databaseName = last'.name
          /\ last'.r.db.CollectionInterface.SdkClient = cli.DatabaseInterface.SdkClient]_vars

\* a handle obtained for a database the service does not hold, while it holds
\* another
C10_Witness ==
    /\ last.op = "Database"
    /\ last.missing /\ dbs # {}
    /\ last.r.db.DatabaseName = last.name
    /\ last.r.ret = Nil

\* ------------------------------------------------------ construction (SpecNew)

\* the configuration NewClient merges: the caller's, or defaultOption for nil
Given == IF last.option.isNil THEN defaultOption ELSE last.option

\* the four fields optionMerge fills, after merging given into merged
FourMerged(given, merged) ==
    /\ merged.Timeout = (IF given.Timeout = 0 THEN 5 ELSE given.Timeout)
    /\ merged.MaxIdldConnPerHost =
         (IF given.MaxIdldConnPerHost = 0 THEN 2 ELSE given.MaxIdldConnPerHost)
    /\ merged.IdleConnTimeout =
         (IF given.IdleConnTimeout = 0 THEN 60 ELSE given.IdleConnTimeout)
    /\ merged.ReadConsistency =
         (IF given.ReadConsistency = "" THEN "eventualConsistency" ELSE given.ReadConsistency)

FourSet(option) ==
    /\ option.Timeout # 0
    /\ option.MaxIdldConnPerHost # 0
    /\ option.IdleConnTimeout # 0
    /\ option.ReadConsistency # ""

C7_MergeIdempotent ==
    last.op = "NewClient"
    => /\ optionMerge(last.merged) = last.merged
       /\ FourSet(Given) => last.merged = Given
       /\ last.err = Nil => cli.option = last.merged

\* a client built from a configuration with fields unset and a pool size of
\* the caller's own
C7_Witness ==
    /\ last.op = "NewClient" /\ ~last.option.isNil
    /\ last.err = Nil
    /\ last.option.Timeout = 0
    /\ last.option.MaxIdldConnPerHost = 1
    /\ cli.option = last.merged
    /\ cli.option.MaxIdldConnPerHost = 1

\* the URL begins with "http"
BeginsWithHttp(url) ==
    /\ Len(url) >= 4
    /\ url[1] = "h" /\ url[2] = "t" /\ url[3] = "t" /\ url[4] = "p"

\* C8: construction returns an error and no client exactly when the URL does
\* not begin with "http" or the account or the key is empty; otherwise it
\* returns no error and a client holding the URL, the account and the key. It
\* reaches the service in neither case.
C8_ConstructionFails ==
    last.op = "NewClient"
    => LET bad == \/ ~BeginsWithHttp(last.url)
                  \/ last.username = <<>>
                  \/ last.key = <<>> IN
       /\ dbs = {}
       /\ bad => (last.err # Nil /\ cli = NoClient)
       /\ ~bad => /\ last.err = Nil
                  /\ ~cli.isNil
                  /\ cli.url = last.url
                  /\ cli.username = last.username
                  /\ cli.key = last.key

\* a URL that holds "http" without beginning with it, with both credentials
C8_Witness ==
    /\ last.op = "NewClient"
    /\ last.url = <<"x", "h", "t", "t", "p">>
    /\ last.username # <<>> /\ last.key # <<>>
    /\ last.err # Nil
    /\ cli = NoClient

\* ------------------------------------------------------ debug mode (SpecRequest)

\* C11: for every request and every round trip, Request with debug on and
\* Request with debug off return the same error, send the same HTTP request
\* the same number of times and leave the same value behind out; the call that
\* was made agrees with both.
C11_DebugOnlyObserves ==
    last.op = "Request"
    => LET on == Request(Debug(cli, TRUE), last.req, last.rt, last.out)
           off == Request(Debug(cli, FALSE), last.req, last.rt, last.out) IN
       /\ on.err = off.err
       /\ on.out = off.out
       /\ on.sent = off.sent
       /\ HttpRequest(Debug(cli, TRUE), last.req) = HttpRequest(Debug(cli, FALSE), last.req)
       /\ last.r.err = on.err
       /\ last.r.out = on.out
       /\ last.r.sent = on.sent

\* a call made with debug on that logged the request and the response, decoded
\* a payload into out and returned nil
C11_Witness ==
    /\ last.op = "Request"
    /\ cli.debug
    /\ last.r.logged = 2
    /\ last.r.err = Nil
    /\ last.r.out # last.out
    /\ Request(Debug(cli, FALSE), last.req, last.rt, last.out).logged = 0

\* ------------------------------------------------------ missing code (SpecRequest)

\* the body is a JSON object that has no code field
OmitsCode(body) == body.kind = "object" /\ body.code.t = "absent"

\* C14 as stated: a 2xx response whose body is a JSON object without the code
\* field makes Request decode the body into out and return nil.
C14_AsStated ==
    (GotResponse /\ Is2xx(last.rt.res) /\ OmitsCode(last.rt.res.body))
    => /\ last.r.err = Nil
       /\ last.r.out = UnmarshalOut(last.rt.res.body, last.out).out

\* C14, amended: a 2xx JSON object without the code field is handled as the
\* same object with code 0: it never gives a Service Error, it gives nil and
\* the decoded out exactly when its msg is absent or a string and its payload
\* fits out, and a Malformed Response error otherwise.
C14_MissingCodeIsZero ==
    (GotResponse /\ Is2xx(last.rt.res) /\ OmitsCode(last.rt.res.body))
    => LET body == last.rt.res.body
           rest == body.msg.t \in {"absent", "str"} /\ PayloadDecodes(body, last.out)
           zero == Request(cli, last.req,
                           [last.rt EXCEPT !.res.body.code = JNum(0)], last.out) IN
       /\ last.r.err.kind \in {"nil", "Malformed"}
       /\ last.r.err = Nil <=> rest
       /\ rest => last.r.out = UnmarshalOut(body, last.out).out
       /\ last.r.err.kind = zero.err.kind
       /\ last.r.out = zero.out

\* an object with a msg and a count but no code, answered to a call whose out
\* held another count: nil, and the count stored
C14_Witness ==
    /\ GotResponse /\ Is2xx(last.rt.res) /\ OmitsCode(last.rt.res.body)
    /\ last.rt.res.body.msg.t = "str"
    /\ last.rt.res.body.payload.t = "num"
    /\ last.out.want = "num"
    /\ last.out.AffectedCount # last.rt.res.body.payload.n
    /\ last.r.err = Nil
    /\ last.r.out.AffectedCount = last.rt.res.body.payload.n

\* ------------------------------------------------------ lifecycle (SpecLife)

\* C12 as stated: no public operation or lifecycle call (Request, WithTimeout,
\* Debug, Close) on a constructed client changes what Options() returns.
C12_AsStated ==
    [][~cli.isNil => Client_Options(cli') = Client_Options(cli)]_vars

\* C12, amended: WithTimeout(d) makes Options().Timeout d and leaves the other
\* fields of the configuration as they were; Request, Debug and Close leave
\* all of Options() as it was.
C12_OnlyTimeoutChanges ==
    [][~cli.isNil =>
         Client_Options(cli') =
           [Client_Options(cli) EXCEPT !.Timeout = IF last'.op = "WithTimeout" THEN last'.d ELSE @]]_vars

\* after WithTimeout with a duration other than the default one, Options()
\* carries that duration and the connection settings given at construction
C12_Witness ==
    /\ last.op = "WithTimeout"
    /\ last.d # DefaultTimeout
    /\ Client_Options(cli).Timeout = last.d
    /\ cli.httpTimeout = last.d
    /\ Client_Options(cli).MaxIdldConnPerHost = Client_Options(TestClient).MaxIdldConnPerHost
    /\ Client_Options(cli).IdleConnTimeout = Client_Options(TestClient).IdleConnTimeout

\* ------------------------------------------------------ concurrent calls (SpecConc)

\* C13: while callers run Request concurrently on one client and nobody calls
\* Debug, WithTimeout or Close, no step of any call changes a field of the
\* client, and every finished call has the outcome Request gives for its own
\* request value, its own round trip and its own res, whatever the other
\* calls were doing.
C13_CallsAreIndependent ==
    /\ [][cli' = cli]_vars
    /\ [](\A t \in Threads :
            last.calls[t].pc = "done"
            => last.calls[t].r =
                 Request(cli, last.calls[t].req, last.calls[t].rt, last.calls[t].out))

\* two calls that were inside c.cli.Do together, given different res values and
\* different responses: one ended with a Service Error and its res untouched,
\* the other with nil and the count stored
C13_Witness ==
    /\ last.calls[1].pc = "done" /\ last.calls[2].pc = "done"
    /\ last.calls[2].overlap
    /\ last.calls[1].out # last.calls[2].out
    /\ last.calls[1].r.err.kind = "Service"
    /\ last.calls[1].r.out = last.calls[1].out
    /\ last.calls[2].r.err = Nil
    /\ last.calls[2].r.out.AffectedCount = 1
    /\ last.calls[2].out.AffectedCount = 7

====
